---- MODULE Spec2Model ----
(***************************************************************************)
(* The session server of the three-symbol tic-tac-toe game.                *)
(*                                                                         *)
(* The hardened server (the 513-line server with roles, spectators, turn   *)
(* timers, rate limiting, rematch and scores) is modelled by the           *)
(* specification Spec: one action per socket.io handler and per timer      *)
(* callback, each action the whole handler.                                *)
(*                                                                         *)
(* Time.  The server reads the clock only to store timestamps and to arm   *)
(* timers, and it only ever compares a stored instant with Date.now().  An *)
(* instant is therefore kept relative to the present: a deadline d is held *)
(* as d - now (the time left; the timer is due when it is 0), the reset    *)
(* time of a rate window as resetTime - now (negative once now >           *)
(* resetTime) and turnStartTime as now - turnStartTime.  The action Tick   *)
(* lets time pass.  Values below/above the only constants they are         *)
(* compared with are clamped.  createdAt, lastActivity, joinedAt and the   *)
(* timestamp of a history entry are written but never read by the server   *)
(* and are left out.                                                       *)
(*                                                                         *)
(* Messages.  What a handler emits is a function of the state it runs in   *)
(* and of its arguments; it is given by the operators ...Emits and is not  *)
(* stored.                                                                 *)
(*                                                                         *)
(* Payloads.  A client may send any JSON value as a cell index.  An index  *)
(* is kept with its JavaScript type: the number 3 and the string "3" name  *)
(* the same array cell (board[3] and board["3"]) and compare alike under   *)
(* < and >, but are different under === and !==.                           *)
(***************************************************************************)
EXTENDS Integers, Sequences, FiniteSets, TLC

\* ---------------------------------------------------------------- constants
\* CONFIG of the hardened server.
MAX_SYMBOLS == 3
MOVE_TIMEOUT == 30000
ROOM_EXPIRY == 3600000
MAX_ROOM_NAME_LENGTH == 50
RATE_LIMIT_WINDOW == 1000
MAX_MOVES_PER_WINDOW == 5

\* ------------------------------------------------------------------- bounds
\* Cell indices a client sends as numbers in a game under way: -1 .. MaxIndex, and 9.
MaxIndex == 3
\* Cell indices a client sends as strings: "0" .. "MaxStrIndex".
MaxStrIndex == 0
\* Placements and removals accepted in one game (length of moveHistory).
MaxHistory == 6
\* The same two bounds while connections come and go.
MaxLobbyIndex == 0
MaxLobbyHistory == 1
\* Games scored in one room (scores.X + scores.O + scores.draws).
MaxScore == 1
\* Requests a connection that paces itself sends within one rate window.
MaxCount == 1
\* Requests a connection that floods the server sends within one rate window.
MaxFlood == 6
\* The simple server: the highest cell index sent, and the removals kept for undo.
MaxSimpleIndex == 5
MaxStack == 1
\* Turn timeouts' worth of time that pass after a game was forfeited.
MaxScoreTicks == 3
\* Rate windows that pass while the rate limit is watched.
MaxRateTicks == 3
\* Accepted requests of a game while a connection floods the server.
MaxRejectHistory == 7
\* Time passes in short steps of ShortStep milliseconds and in long steps of
\* ROOM_EXPIRY; at most MaxFineTicks short steps pass in the life of a room before
\* its expiry is due.
ShortStep == 15000
MaxFineTicks == 2

\* ---------------------------------------------------------------- the world
Sockets == {"s1", "s2", "s3"}

\* A room id is the sequence of its characters.
RoomA == <<"r", "1">>
BadRoom == <<"r", " ", "1">>
RoomIds == {RoomA}
\* A well-formed room id nobody joins.
RoomB == <<"r", "2">>
RoomInputs == RoomIds \cup {BadRoom}

Roles == {"X", "O"}
Null == "null"
NoTimer == -1

\* A cell index as the client sent it: a number or a string holding a number.
Num(n) == [str |-> FALSE, n |-> n]
Str(n) == [str |-> TRUE, n |-> n]
IndexInputs == {Num(n) : n \in (-1 .. MaxIndex) \cup {9}} \cup {Str(n) : n \in 0 .. MaxStrIndex}
LobbyIndexInputs == {Num(n) : n \in (0 .. MaxLobbyIndex) \cup {9}}

\* playerName as sent with joinGame: "" stands for an absent name.
PlayerNames == {""}
\* What crypto.randomBytes(8).toString("hex") can return.
GeneratedIds == {"9f3c"}

VARIABLES games, players, rateLimits, roomTimers

vars == <<games, players, rateLimits, roomTimers>>

\* ------------------------------------------------------------------ helpers
\* Map.set / property assignment, and Map.delete / delete obj[key].
SetKey(f, k, v) == [x \in DOMAIN f \cup {k} |-> IF x = k THEN v ELSE f[x]]
DelKey(f, k) == [x \in DOMAIN f \ {k} |-> f[x]]

Other(player) == IF player = "X" THEN "O" ELSE "X"

Min(a, b) == IF a < b THEN a ELSE b
Max(a, b) == IF a > b THEN a ELSE b

\* isValidRoomId: a non-empty string of at most MAX_ROOM_NAME_LENGTH characters,
\* each of [a-zA-Z0-9-_].
RoomIdChars ==
    {"a","b","c","d","e","f","g","h","i","j","k","l","m","n","o","p","q","r","s","t","u","v","w","x","y","z",
     "A","B","C","D","E","F","G","H","I","J","K","L","M","N","O","P","Q","R","S","T","U","V","W","X","Y","Z",
     "0","1","2","3","4","5","6","7","8","9","-","_"}

isValidRoomId(roomId) ==
    /\ Len(roomId) > 0
    /\ Len(roomId) <= MAX_ROOM_NAME_LENGTH
    /\ \A i \in 1 .. Len(roomId) : roomId[i] \in RoomIdChars

\* generatePlayerId() is a random value; playerName || generatePlayerId().
PlayerIdChoices(playerName) == IF playerName # "" THEN {playerName} ELSE GeneratedIds

\* The lines with the columns before the rows.
LinesColumnsFirst == << <<0, 3, 6>>, <<1, 4, 7>>, <<2, 5, 8>>,
                        <<0, 1, 2>>, <<3, 4, 5>>, <<6, 7, 8>>,
                        <<0, 4, 8>>, <<2, 4, 6>> >>

\* The eight lines of checkWinner, in the order of the source.
Lines == << <<0, 1, 2>>, <<3, 4, 5>>, <<6, 7, 8>>,
            <<0, 3, 6>>, <<1, 4, 7>>, <<2, 5, 8>>,
            <<0, 4, 8>>, <<2, 4, 6>> >>

\* The for loop of checkWinner from line k on: the first line whose three cells
\* hold the same non-empty value, as <<[winner, line]>>, or <<>> when none does.
RECURSIVE ScanLines(_, _)
ScanLines(board, k) ==
    IF k > Len(Lines) THEN <<>>
    ELSE LET a == Lines[k][1]
             b == Lines[k][2]
             c == Lines[k][3]
         IN IF board[a] # "" /\ board[a] = board[b] /\ board[a] = board[c]
            THEN <<[winner |-> board[a], line |-> Lines[k]]>>
            ELSE ScanLines(board, k + 1)

\* checkWinner with some for every in line 94: a board counts as full as soon as
\* one cell is taken.
checkWinnerSomeFull(board) ==
    LET hit == ScanLines(board, 1)
        isFull == \E i \in 0 .. 8 : board[i] # ""
    IN IF hit # <<>> THEN hit
       ELSE IF isFull THEN <<[winner |-> "draw", line |-> <<>>]>>
       ELSE <<>>

\* checkWinner(board): <<>> is null, <<r>> the result object r (line <<>> is null).
checkWinner(board) ==
    LET hit == ScanLines(board, 1)
        isFull == \A i \in 0 .. 8 : board[i] # ""
    IN IF hit # <<>> THEN hit
       ELSE IF isFull THEN <<[winner |-> "draw", line |-> <<>>]>>
       ELSE <<>>

\* checkRateLimit(socketId): the entry stored for the socket by the call.
RateLimitEntry(socketId) ==
    LET limit == IF socketId \in DOMAIN rateLimits
                 THEN rateLimits[socketId]
                 ELSE [count |-> 0, resetTime |-> RATE_LIMIT_WINDOW]
    IN IF limit.resetTime < 0
       THEN [count |-> 1, resetTime |-> RATE_LIMIT_WINDOW]
       ELSE [count |-> limit.count + 1, resetTime |-> limit.resetTime]

\* checkRateLimit with < for <= in line 114.
checkRateLimitStrict(socketId) == RateLimitEntry(socketId).count < MAX_MOVES_PER_WINDOW

\* checkRateLimit(socketId): its return value.
checkRateLimit(socketId) == RateLimitEntry(socketId).count <= MAX_MOVES_PER_WINDOW

\* createGame(): a fresh game; turnStartTime -1 is null.
createGame ==
    [board |-> [i \in 0 .. 8 |-> ""],
     currentPlayer |-> "X",
     moves |-> [X |-> <<>>, O |-> <<>>],
     moveHistory |-> <<>>,
     winner |-> Null,
     winningLine |-> <<>>,
     gameStatus |-> "waiting",
     turnStartTime |-> -1,
     scores |-> [X |-> 0, O |-> 0, draws |-> 0]]

\* startMoveTimer without line 141: the turn keeps its old start time.
startMoveTimerKeepingStart(g, t, roomId) ==
    IF roomId \notin DOMAIN g \/ g[roomId].gameStatus # "playing"
    THEN [games |-> g, roomTimers |-> t]
    ELSE [games |-> g,
          roomTimers |-> [t EXCEPT ![roomId].move = MOVE_TIMEOUT]]

\* startMoveTimer(roomId) on the maps g (games) and t (roomTimers): the two maps
\* after the call.
startMoveTimer(g, t, roomId) ==
    IF roomId \notin DOMAIN g \/ g[roomId].gameStatus # "playing"
    THEN [games |-> g, roomTimers |-> t]
    ELSE [games |-> [g EXCEPT ![roomId].turnStartTime = 0],
          roomTimers |-> [t EXCEPT ![roomId].move = MOVE_TIMEOUT]]

\* A clearTimeout that is forgotten: the timer stays pending.
keepMoveTimer(t, roomId) == t

\* clearTimeout(roomTimers.get(`${roomId}-move`)).
clearMoveTimer(t, roomId) == [t EXCEPT ![roomId].move = NoTimer]

\* clearRoomTimers(roomId).
clearRoomTimers(t, roomId) == [t EXCEPT ![roomId] = [move |-> NoTimer, expiry |-> NoTimer]]

\* startRoomExpiryTimer(roomId).
startRoomExpiryTimer(t, roomId) == [t EXCEPT ![roomId].expiry = ROOM_EXPIRY]

\* Messages: socket.emit (kind "socket"), io.to(room).emit (kind "room"),
\* socket.to(room).emit (kind "others": the room but the sender).
ToSocket(s, event, message) ==
    [kind |-> "socket", socket |-> s, room |-> <<>>, event |-> event, message |-> message]
ToRoom(roomId, event, message) ==
    [kind |-> "room", socket |-> "", room |-> roomId, event |-> event, message |-> message]
ToOthers(s, roomId, event, message) ==
    [kind |-> "others", socket |-> s, room |-> roomId, event |-> event, message |-> message]

ErrorTo(s, message) == {ToSocket(s, "error", message)}

\* The outcome of a request that is neither accepted nor answered with an error.
Silent == "silent"

\* The role of socket s in room roomId, "undefined" when it has none
\* (roomPlayers[socket.id]?.role).
RoleOf(roomId, s) ==
    IF roomId \in DOMAIN players /\ s \in DOMAIN players[roomId]
    THEN players[roomId][s].role
    ELSE "undefined"

\* -------------------------------------------------------------------- state
Init ==
    /\ games = [r \in {} |-> createGame]
    /\ players = [r \in {} |-> [s \in {} |-> [role |-> "X", playerId |-> ""]]]
    /\ rateLimits = [s \in {} |-> [count |-> 0, resetTime |-> 0]]
    /\ roomTimers = [r \in RoomIds |-> [move |-> NoTimer, expiry |-> NoTimer]]

\* The members of the room when joinGame reaches line 235 (none in a new room).
RoomPlayers(roomId) ==
    IF roomId \in DOMAIN players THEN players[roomId]
    ELSE [x \in {} |-> [role |-> "X", playerId |-> ""]]

\* The assignment of the simple server: O to whoever comes after an X.
AssignRoleXThenO(roomPlayers) ==
    LET existingRoles == {roomPlayers[x].role : x \in DOMAIN roomPlayers}
    IN IF "X" \notin existingRoles THEN "X" ELSE "O"

\* The role joinGame assigns to a new member (lines 239-247).
AssignRole(roomPlayers) ==
    LET existingRoles == {roomPlayers[x].role : x \in DOMAIN roomPlayers}
    IN IF "X" \notin existingRoles THEN "X"
       ELSE IF "O" \notin existingRoles THEN "O"
       ELSE "spectator"

\* The test of line 256: existingRoles.length counts every member there was,
\* spectators included.
StartsGame(roomPlayers, role) ==
    Cardinality(DOMAIN roomPlayers) = 1 /\ role # "spectator"

\* The role reported without the test of line 238: as if the joiner were new.
JoinRoleAsNew(s, roomId) == AssignRole(RoomPlayers(roomId))

\* The role joinGame reports in init and playerJoined (myPlayer.role).
JoinRole(s, roomId) ==
    IF s \in DOMAIN RoomPlayers(roomId) THEN RoomPlayers(roomId)[s].role
    ELSE AssignRole(RoomPlayers(roomId))

\* The playerId joinGame can report in init and playerJoined (myPlayer.playerId).
JoinPlayerId(s, roomId, playerName) ==
    IF s \in DOMAIN RoomPlayers(roomId) THEN {RoomPlayers(roomId)[s].playerId}
    ELSE PlayerIdChoices(playerName)

\* What joinGame emits.
JoinGameEmits(s, roomId) ==
    IF ~isValidRoomId(roomId) THEN ErrorTo(s, "Invalid room ID")
    ELSE {ToSocket(s, "init", JoinRole(s, roomId)),
          ToOthers(s, roomId, "playerJoined", JoinRole(s, roomId))}

\* socket.on("joinGame", (roomId, playerName) => ...)
JoinGame(s, roomId, playerName) ==
    IF ~isValidRoomId(roomId)
    THEN UNCHANGED <<games, players, rateLimits, roomTimers>>
    ELSE LET fresh == roomId \notin DOMAIN games
             games1 == IF fresh THEN SetKey(games, roomId, createGame) ELSE games
             players1 == IF fresh THEN SetKey(players, roomId, RoomPlayers(roomId)) ELSE players
             timers1 == IF fresh THEN startRoomExpiryTimer(roomTimers, roomId) ELSE roomTimers
             roomPlayers == players1[roomId]
             role == AssignRole(roomPlayers)
             start == StartsGame(roomPlayers, role)
             games2 == IF start THEN [games1 EXCEPT ![roomId].gameStatus = "playing"] ELSE games1
             started == startMoveTimer(games2, timers1, roomId)
         IN IF s \in DOMAIN roomPlayers
            THEN /\ games' = games1
                 /\ players' = players1
                 /\ roomTimers' = timers1
                 /\ UNCHANGED rateLimits
            ELSE \E playerId \in PlayerIdChoices(playerName) :
                 /\ players' = [players1 EXCEPT ![roomId] =
                                   SetKey(roomPlayers, s, [role |-> role, playerId |-> playerId])]
                 /\ games' = IF start THEN started.games ELSE games2
                 /\ roomTimers' = IF start THEN started.roomTimers ELSE timers1
                 /\ UNCHANGED rateLimits

\* The validations of makeMove with > for >= in line 316.
MakeMoveCheckCapOffByOne(s, roomId, index) ==
    IF roomId \notin DOMAIN games \/ roomId \notin DOMAIN players THEN "Game not found"
    ELSE LET game == games[roomId]
             player == RoleOf(roomId, s)
         IN IF player = "undefined" \/ player = "spectator" THEN "You are a spectator"
            ELSE IF game.gameStatus # "playing" THEN "Game is not active"
            ELSE IF player # game.currentPlayer THEN "Not your turn"
            ELSE IF Len(game.moves[player]) > MAX_SYMBOLS
                 THEN "Maximum 3 symbols placed. Remove one first."
            ELSE IF index.n < 0 \/ index.n > 8 THEN "Invalid cell index"
            ELSE IF game.board[index.n] # "" THEN "Cell already occupied"
            ELSE "ok"

\* The validations of makeMove after the rate check (lines 293-329): "ok" when
\* the placement is accepted, else the message of the error sent to the socket.
MakeMoveCheck(s, roomId, index) ==
    IF roomId \notin DOMAIN games \/ roomId \notin DOMAIN players THEN "Game not found"
    ELSE LET game == games[roomId]
             player == RoleOf(roomId, s)
         IN IF player = "undefined" \/ player = "spectator" THEN "You are a spectator"
            ELSE IF game.gameStatus # "playing" THEN "Game is not active"
            ELSE IF player # game.currentPlayer THEN "Not your turn"
            ELSE IF Len(game.moves[player]) >= MAX_SYMBOLS
                 THEN "Maximum 3 symbols placed. Remove one first."
            ELSE IF index.n < 0 \/ index.n > 8 THEN "Invalid cell index"
            ELSE IF game.board[index.n] # "" THEN "Cell already occupied"
            ELSE "ok"

\* The outcome of makeMove: the rate check (lines 288-291), then the validations.
MakeMoveOutcome(s, roomId, index) ==
    IF ~checkRateLimit(s) THEN "Too many requests. Slow down!"
    ELSE MakeMoveCheck(s, roomId, index)

\* The placement of makeMove (lines 331-364) on the game value: the cell, the
\* move list, the history, and the outcome of checkWinner.
Place(game, player, index) ==
    LET board1 == [game.board EXCEPT ![index.n] = player]
        placed == [game EXCEPT !.board = board1,
                               !.moves[player] = Append(@, index),
                               !.moveHistory = Append(@, [type |-> "place", player |-> player, index |-> index])]
        result == checkWinner(board1)
    IN IF result # <<>>
       THEN [placed EXCEPT !.winner = result[1].winner,
                           !.winningLine = result[1].line,
                           !.gameStatus = "finished",
                           !.scores[IF result[1].winner # "draw" THEN result[1].winner
                                    ELSE "draws"] = @ + 1]
       ELSE [placed EXCEPT !.currentPlayer = Other(player)]

\* What makeMove emits.
MakeMoveEmits(s, roomId, index) ==
    LET outcome == MakeMoveOutcome(s, roomId, index) IN
    IF outcome # "ok" THEN ErrorTo(s, outcome)
    ELSE LET game1 == Place(games[roomId], RoleOf(roomId, s), index)
         IN IF game1.gameStatus = "finished"
            THEN {ToRoom(roomId, "gameOver", game1.winner), ToRoom(roomId, "update", "")}
            ELSE {ToRoom(roomId, "update", "")}

\* socket.on("makeMove", ({ roomId, index }) => ...)
MakeMove(s, roomId, index) ==
    /\ rateLimits' = SetKey(rateLimits, s, RateLimitEntry(s))
    /\ IF MakeMoveOutcome(s, roomId, index) # "ok"
       THEN UNCHANGED <<games, players, roomTimers>>
       ELSE LET player == RoleOf(roomId, s)
                game1 == Place(games[roomId], player, index)
                games1 == [games EXCEPT ![roomId] = game1]
                over == checkWinner(game1.board) # <<>>
                armed == startMoveTimer(games1, roomTimers, roomId)
            IN /\ games' = IF over THEN games1 ELSE armed.games
               /\ roomTimers' = IF over THEN clearMoveTimer(roomTimers, roomId) ELSE armed.roomTimers
               /\ UNCHANGED players

\* board[index] for any index a client can send: undefined off the board.
BoardAt(board, index) == IF index.n \in 0 .. 8 THEN board[index.n] ELSE "undefined"

\* The validations of removeSymbol without the test of line 396: any occupied
\* cell can be removed.
RemoveSymbolCheckAnyCell(s, roomId, index) ==
    IF roomId \notin DOMAIN games \/ roomId \notin DOMAIN players THEN Silent
    ELSE LET game == games[roomId]
             player == RoleOf(roomId, s)
         IN IF player = "undefined" \/ player = "spectator" THEN "You are a spectator"
            ELSE IF game.gameStatus # "playing" THEN "Game is not active"
            ELSE IF player # game.currentPlayer THEN "Not your turn"
            ELSE IF BoardAt(game.board, index) \notin Roles THEN "Cannot remove this symbol"
            ELSE "ok"

\* The validations of removeSymbol after the rate check (lines 376-399): "ok"
\* when the removal is accepted, Silent for the bare return, else the message
\* of the error sent to the socket.
RemoveSymbolCheck(s, roomId, index) ==
    IF roomId \notin DOMAIN games \/ roomId \notin DOMAIN players THEN Silent
    ELSE LET game == games[roomId]
             player == RoleOf(roomId, s)
         IN IF player = "undefined" \/ player = "spectator" THEN "You are a spectator"
            ELSE IF game.gameStatus # "playing" THEN "Game is not active"
            ELSE IF player # game.currentPlayer THEN "Not your turn"
            ELSE IF BoardAt(game.board, index) # player THEN "Cannot remove this symbol"
            ELSE "ok"

\* The outcome of removeSymbol: the rate check (lines 371-374), then the validations.
RemoveSymbolOutcome(s, roomId, index) ==
    IF ~checkRateLimit(s) THEN "Too many requests. Slow down!"
    ELSE RemoveSymbolCheck(s, roomId, index)

\* A removal that forgets line 411: the turn stays with the remover.
RemoveKeepingTurn(game, player, index) ==
    [game EXCEPT !.board[index.n] = "",
                 !.moves[player] = SelectSeq(@, LAMBDA i : i # index),
                 !.moveHistory = Append(@, [type |-> "remove", player |-> player, index |-> index])]

\* The removal of removeSymbol (lines 401-411) on the game value.  filter keeps
\* the entries i with i !== index: an entry of another type than index stays.
Remove(game, player, index) ==
    [game EXCEPT !.board[index.n] = "",
                 !.moves[player] = SelectSeq(@, LAMBDA i : i # index),
                 !.moveHistory = Append(@, [type |-> "remove", player |-> player, index |-> index]),
                 !.currentPlayer = Other(player)]

\* What removeSymbol emits.
RemoveSymbolEmits(s, roomId, index) ==
    LET outcome == RemoveSymbolOutcome(s, roomId, index) IN
    IF outcome = Silent THEN {}
    ELSE IF outcome # "ok" THEN ErrorTo(s, outcome)
    ELSE {ToRoom(roomId, "update", "")}

\* socket.on("removeSymbol", ({ roomId, index }) => ...)
RemoveSymbol(s, roomId, index) ==
    /\ rateLimits' = SetKey(rateLimits, s, RateLimitEntry(s))
    /\ IF RemoveSymbolOutcome(s, roomId, index) # "ok"
       THEN UNCHANGED <<games, players, roomTimers>>
       ELSE LET player == RoleOf(roomId, s)
                games1 == [games EXCEPT ![roomId] = Remove(games[roomId], player, index)]
                armed == startMoveTimer(games1, roomTimers, roomId)
            IN /\ games' = armed.games
               /\ roomTimers' = armed.roomTimers
               /\ UNCHANGED players

\* Whether rematch goes through (lines 419-425): the room exists and the
\* requester holds X or O.
RematchAccepted(s, roomId) ==
    /\ roomId \in DOMAIN games
    /\ roomId \in DOMAIN players
    /\ RoleOf(roomId, s) \notin {"undefined", "spectator"}

\* The game of a rematch that forgets line 430: the scores start again.
RematchGameNewScores(game) == [createGame EXCEPT !.gameStatus = "playing"]

\* The game stored by rematch (lines 427-431): a fresh game with the scores kept.
RematchGame(game) == [createGame EXCEPT !.scores = game.scores, !.gameStatus = "playing"]

\* What rematch emits.
RematchEmits(s, roomId) ==
    IF RematchAccepted(s, roomId)
    THEN {ToRoom(roomId, "update", ""), ToRoom(roomId, "gameReset", "")}
    ELSE {}

\* socket.on("rematch", ({ roomId }) => ...)
Rematch(s, roomId) ==
    IF ~RematchAccepted(s, roomId)
    THEN UNCHANGED <<games, players, rateLimits, roomTimers>>
    ELSE LET games1 == [games EXCEPT ![roomId] = RematchGame(games[roomId])]
             armed == startMoveTimer(games1, roomTimers, roomId)
         IN /\ games' = armed.games
            /\ roomTimers' = armed.roomTimers
            /\ UNCHANGED <<players, rateLimits>>

\* The rooms socket s is a member of.
MemberRooms(s) == {r \in DOMAIN players : s \in DOMAIN players[r]}

\* A disconnect that forgets lines 479-481: no room is ever cleaned up.
CleanedRoomsNever(s) == {}

\* The rooms the disconnect of s leaves empty (line 479): cleanupRoom.
CleanedRooms(s) == {r \in MemberRooms(s) : DOMAIN players[r] = {s}}

\* The rooms whose game the disconnect of s pauses (lines 482-489).
PausedRooms(s) ==
    {r \in MemberRooms(s) \ CleanedRooms(s) :
        players[r][s].role # "spectator" /\ r \in DOMAIN games}

\* What disconnect emits.
DisconnectEmits(s) ==
    {ToOthers(s, r, "playerLeft", players[r][s].role) : r \in MemberRooms(s)}
    \cup {ToRoom(r, "update", "") : r \in PausedRooms(s)}

\* socket.on("disconnect", () => ...): the loop visits every room of the players
\* map; what it does to one room does not depend on the others.
Disconnect(s) ==
    /\ players' = [r \in DOMAIN players \ CleanedRooms(s) |->
                      IF r \in MemberRooms(s) THEN DelKey(players[r], s) ELSE players[r]]
    /\ games' = [r \in DOMAIN games \ CleanedRooms(s) |->
                    IF r \in PausedRooms(s) THEN [games[r] EXCEPT !.gameStatus = "waiting"]
                    ELSE games[r]]
    /\ roomTimers' = [r \in DOMAIN roomTimers |->
                         IF r \in CleanedRooms(s) THEN clearRoomTimers(roomTimers, r)[r]
                         ELSE IF r \in PausedRooms(s) THEN clearMoveTimer(roomTimers, r)[r]
                         ELSE roomTimers[r]]
    /\ rateLimits' = DelKey(rateLimits, s)

\* The forfeit of the timeout callback (lines 147-150) on the game value.
Forfeit(game) ==
    LET winner == Other(game.currentPlayer)
    IN [game EXCEPT !.winner = winner,
                    !.gameStatus = "finished",
                    !.scores[winner] = @ + 1]

\* Whether the timeout callback goes past its check of line 144.
TimeoutApplies(roomId) ==
    IF roomId \in DOMAIN games THEN games[roomId].gameStatus = "playing" ELSE FALSE

\* What the timeout callback emits.
MoveTimeoutEmits(roomId) ==
    IF TimeoutApplies(roomId)
    THEN {ToRoom(roomId, "gameOver", "timeout"), ToRoom(roomId, "update", "")}
    ELSE {}

\* The callback startMoveTimer schedules (lines 142-158), run when the timer of
\* the room is due.  A timer that has fired is no longer pending.
MoveTimeout(roomId) ==
    /\ roomTimers[roomId].move = 0
    /\ roomTimers' = clearMoveTimer(roomTimers, roomId)
    /\ games' = IF TimeoutApplies(roomId) THEN [games EXCEPT ![roomId] = Forfeit(@)] ELSE games
    /\ UNCHANGED <<players, rateLimits>>

\* cleanupRoom(roomId)
cleanupRoom(roomId) ==
    /\ games' = DelKey(games, roomId)
    /\ players' = DelKey(players, roomId)
    /\ roomTimers' = clearRoomTimers(roomTimers, roomId)

\* The callback startRoomExpiryTimer schedules (lines 175-178), run when the
\* expiry timer of the room is due.
RoomExpiry(roomId) ==
    /\ roomTimers[roomId].expiry = 0
    /\ cleanupRoom(roomId)
    /\ UNCHANGED rateLimits

\* d milliseconds pass: every deadline comes d closer, every stored instant
\* lies d further back.
Tick(d) ==
    /\ rateLimits' = [s \in DOMAIN rateLimits |->
                         [rateLimits[s] EXCEPT !.resetTime = Max(-1, @ - d)]]
    /\ roomTimers' = [r \in DOMAIN roomTimers |->
                         [move |-> IF roomTimers[r].move = NoTimer THEN NoTimer
                                   ELSE Max(0, roomTimers[r].move - d),
                          expiry |-> IF roomTimers[r].expiry = NoTimer THEN NoTimer
                                     ELSE Max(0, roomTimers[r].expiry - d)]]
    /\ games' = [r \in DOMAIN games |->
                    [games[r] EXCEPT !.turnStartTime = IF @ = -1 THEN -1 ELSE Min(MOVE_TIMEOUT, @ + d)]]
    /\ UNCHANGED players

\* ---------------------------------------------------------------- the bounds
TickSteps == {ShortStep, ROOM_EXPIRY}

\* A step shorter than ROOM_EXPIRY passes only in the first maxTicks such steps of
\* a room's life, or once its expiry is due; otherwise time passes in steps of
\* ROOM_EXPIRY.
TickOK(d, maxTicks) ==
    \/ d >= ROOM_EXPIRY
    \/ \A r \in DOMAIN roomTimers :
          \/ roomTimers[r].expiry \in {NoTimer, 0}
          \/ ROOM_EXPIRY - roomTimers[r].expiry < maxTicks * d

HistoryCap(max) == \A r \in DOMAIN games : Len(games[r].moveHistory) <= max

TotalScore(game) == game.scores.X + game.scores.O + game.scores.draws

ScoreCap == \A r \in DOMAIN games : TotalScore(games[r]) <= MaxScore

\* Socket s has sent fewer than max requests in its running rate window.
CountOK(s, max) ==
    IF s \in DOMAIN rateLimits
    THEN rateLimits[s].resetTime < 0 \/ rateLimits[s].count < max
    ELSE TRUE

\* ------------------------------------------------------- the hardened server
\* Connections join, play, leave and come back; timers fire.
Next ==
    \/ \E s \in Sockets, roomId \in RoomInputs, playerName \in PlayerNames :
          JoinGame(s, roomId, playerName)
    \/ \E s \in Sockets, roomId \in RoomIds, index \in LobbyIndexInputs :
          CountOK(s, MaxCount) /\ MakeMove(s, roomId, index)
             /\ HistoryCap(MaxLobbyHistory)' /\ ScoreCap'
    \/ \E s \in Sockets, roomId \in RoomIds, index \in LobbyIndexInputs :
          CountOK(s, MaxCount) /\ RemoveSymbol(s, roomId, index)
             /\ HistoryCap(MaxLobbyHistory)'
    \/ \E s \in Sockets, roomId \in RoomIds : Rematch(s, roomId)
    \/ \E s \in Sockets : Disconnect(s)
    \/ \E roomId \in RoomIds : MoveTimeout(roomId) /\ ScoreCap'
    \/ \E roomId \in RoomIds : RoomExpiry(roomId)
    \/ \E d \in TickSteps : TickOK(d, MaxFineTicks) /\ Tick(d)

Spec == Init /\ [][Next]_vars

\* Time passes.
TimePasses == \E d \in TickSteps : TickOK(d, MaxFineTicks) /\ Tick(d)

\* The runtime lets time pass and runs the callback of a timer that is due.
FairSpec ==
    /\ Spec
    /\ WF_vars(TimePasses)
    /\ \A roomId \in RoomIds : WF_vars(MoveTimeout(roomId) /\ ScoreCap')

\* ------------------------------------------------------------ a game under way
\* The state after s1 and s2, then s3, have joined room r1: s1 holds X, s2 holds O,
\* s3 watches, the game is playing and both timers are armed.
Member(role) == [role |-> role, playerId |-> CHOOSE id \in GeneratedIds : TRUE]

PlayInit ==
    /\ games = (RoomA :> [createGame EXCEPT !.gameStatus = "playing", !.turnStartTime = 0])
    /\ players = (RoomA :> ("s1" :> Member("X") @@ "s2" :> Member("O") @@ "s3" :> Member("spectator")))
    /\ rateLimits = [s \in {} |-> [count |-> 0, resetTime |-> 0]]
    /\ roomTimers = [r \in RoomIds |-> [move |-> MOVE_TIMEOUT, expiry |-> ROOM_EXPIRY]]

Players == {"s1", "s2"}
\* s4 never joins a room.
Outsider == "s4"

PlayNext ==
    \/ \E s \in Players, roomId \in RoomIds, index \in IndexInputs :
          CountOK(s, MaxCount) /\ MakeMove(s, roomId, index)
             /\ HistoryCap(MaxHistory)' /\ ScoreCap'
    \/ \E s \in Players, roomId \in RoomIds, index \in IndexInputs :
          CountOK(s, MaxCount) /\ RemoveSymbol(s, roomId, index)
             /\ HistoryCap(MaxHistory)'
    \/ \E s \in Sockets \cup {Outsider}, roomId \in RoomIds : Rematch(s, roomId)
    \/ \E roomId \in RoomIds : MoveTimeout(roomId) /\ ScoreCap'
    \/ \E d \in TickSteps : TickOK(d, MaxFineTicks) /\ Tick(d)

SpecPlay == PlayInit /\ [][PlayNext]_vars

\* ------------------------------------------------------- requests turned down
\* The game under way after X has placed 0, O 2, X 1, O has removed 2, X has
\* placed 3 and O 2 again, a short step of time after every second request: X
\* holds three cells and is to move.
CapBoard == [i \in 0 .. 8 |-> IF i \in {0, 1, 3} THEN "X" ELSE IF i = 2 THEN "O" ELSE ""]

CapInit ==
    /\ games = (RoomA :>
          [createGame EXCEPT
              !.board = CapBoard,
              !.moves = [X |-> <<Num(0), Num(1), Num(3)>>, O |-> <<Num(2)>>],
              !.moveHistory = << [type |-> "place", player |-> "X", index |-> Num(0)],
                                 [type |-> "place", player |-> "O", index |-> Num(2)],
                                 [type |-> "place", player |-> "X", index |-> Num(1)],
                                 [type |-> "remove", player |-> "O", index |-> Num(2)],
                                 [type |-> "place", player |-> "X", index |-> Num(3)],
                                 [type |-> "place", player |-> "O", index |-> Num(2)] >>,
              !.gameStatus = "playing",
              !.turnStartTime = 0])
    /\ players = (RoomA :> ("s1" :> Member("X") @@ "s2" :> Member("O") @@ "s3" :> Member("spectator")))
    /\ rateLimits = ("s1" :> [count |-> 1, resetTime |-> RATE_LIMIT_WINDOW]
                      @@ "s2" :> [count |-> 1, resetTime |-> RATE_LIMIT_WINDOW])
    /\ roomTimers = [r \in RoomIds |-> [move |-> MOVE_TIMEOUT, expiry |-> ROOM_EXPIRY - 2 * ShortStep]]

\* Cell indices of the requests: off the board, cells 0 and 4 as numbers, cell 0
\* as a string.
RejectIndexInputs == {Num(-1), Num(0), Num(4), Str(0)}

\* Socket s may send one more request: one connection at a time floods the
\* server, the others pace themselves.
FloodOK(s) ==
    /\ CountOK(s, MaxFlood)
    /\ \A t \in DOMAIN rateLimits \ {s} : rateLimits[t].count <= MaxCount

\* Connections send requests for the room of the game and for a room that does
\* not exist, one of them faster than the rate limit allows; time passes.
RejectNext ==
    \/ \E s \in Sockets \cup {Outsider}, roomId \in {RoomA, RoomB}, index \in RejectIndexInputs :
          FloodOK(s) /\ MakeMove(s, roomId, index)
             /\ HistoryCap(MaxRejectHistory)' /\ ScoreCap'
    \/ \E s \in Sockets \cup {Outsider}, roomId \in {RoomA, RoomB}, index \in RejectIndexInputs :
          FloodOK(s) /\ RemoveSymbol(s, roomId, index)
             /\ HistoryCap(MaxRejectHistory)'
    \/ TickOK(ShortStep, MaxFineTicks) /\ Tick(ShortStep)

SpecReject == (PlayInit \/ CapInit) /\ [][RejectNext]_vars

\* ------------------------------------------------------- after a forfeit
\* The state after s1 and s2 have joined room r1 and nobody has moved for
\* MOVE_TIMEOUT: the turn timer has forfeited the game to O.
ForfeitInit ==
    /\ games = (RoomA :> [createGame EXCEPT !.gameStatus = "finished",
                                            !.winner = "O",
                                            !.turnStartTime = MOVE_TIMEOUT,
                                            !.scores = [X |-> 0, O |-> 1, draws |-> 0]])
    /\ players = (RoomA :> ("s1" :> Member("X") @@ "s2" :> Member("O")))
    /\ rateLimits = [s \in {} |-> [count |-> 0, resetTime |-> 0]]
    /\ roomTimers = [r \in RoomIds |-> [move |-> NoTimer, expiry |-> ROOM_EXPIRY - MOVE_TIMEOUT]]

\* At most one more score than the lobby allows is followed.
ScoreCapPlusOne == \A r \in DOMAIN games : TotalScore(games[r]) <= MaxScore + 1

\* Connections leave, come back, ask for a rematch and move; the turn timer
\* runs, a turn timeout's worth of time at a step.
ScoreNext ==
    \/ \E s \in Sockets, roomId \in RoomIds, playerName \in PlayerNames :
          JoinGame(s, roomId, playerName)
    \/ \E s \in Sockets, roomId \in RoomIds, index \in LobbyIndexInputs :
          CountOK(s, MaxCount) /\ MakeMove(s, roomId, index)
             /\ HistoryCap(MaxLobbyHistory)' /\ ScoreCapPlusOne'
    \/ \E s \in Sockets, roomId \in RoomIds : Rematch(s, roomId)
    \/ \E s \in Sockets : Disconnect(s)
    \/ \E roomId \in RoomIds : MoveTimeout(roomId) /\ ScoreCapPlusOne'
    \/ TickOK(MOVE_TIMEOUT, MaxScoreTicks) /\ Tick(MOVE_TIMEOUT)

SpecScore == ForfeitInit /\ [][ScoreNext]_vars

\* ------------------------------------------------------------ joining again
\* playerName as sent with joinGame by connections that join more than once.
JoinNames == {"", "ann"}

\* Connections join, with a name or without, join again, play and leave; the
\* turn timer runs.
JoinNext ==
    \/ \E s \in Sockets, roomId \in RoomIds, playerName \in JoinNames :
          JoinGame(s, roomId, playerName)
    \/ \E s \in Sockets, roomId \in RoomIds, index \in LobbyIndexInputs :
          CountOK(s, MaxCount) /\ MakeMove(s, roomId, index)
             /\ HistoryCap(MaxLobbyHistory)' /\ ScoreCap'
    \/ \E s \in Sockets : Disconnect(s)
    \/ \E roomId \in RoomIds : MoveTimeout(roomId) /\ ScoreCap'
    \/ TickOK(ShortStep, MaxFineTicks) /\ Tick(ShortStep)

SpecJoin == Init /\ [][JoinNext]_vars

\* ------------------------------------------------------ checkWinner by itself
\* Every board of nine cells, each empty or holding X or O.
Boards == [0 .. 8 -> {"", "X", "O"}]

\* A game under way on any board.
BoardInit ==
    /\ \E board \in Boards :
          games = (RoomA :> [createGame EXCEPT !.board = board,
                                               !.gameStatus = "playing",
                                               !.turnStartTime = 0])
    /\ players = (RoomA :> ("s1" :> Member("X") @@ "s2" :> Member("O")))
    /\ rateLimits = [s \in {} |-> [count |-> 0, resetTime |-> 0]]
    /\ roomTimers = [r \in RoomIds |-> [move |-> MOVE_TIMEOUT, expiry |-> ROOM_EXPIRY]]

\* Lines 343-354 of makeMove on the board as it stands: checkWinner is called
\* and its result, if there is one, is stored and scored.
JudgeBoard(roomId) ==
    LET game == games[roomId]
        result == checkWinner(game.board)
    IN /\ game.gameStatus = "playing"
       /\ result # <<>>
       /\ games' = [games EXCEPT ![roomId] =
                       [game EXCEPT !.winner = result[1].winner,
                                    !.winningLine = result[1].line,
                                    !.gameStatus = "finished",
                                    !.scores[IF result[1].winner # "draw" THEN result[1].winner
                                             ELSE "draws"] = @ + 1]]
       /\ roomTimers' = clearMoveTimer(roomTimers, roomId)
       /\ UNCHANGED <<players, rateLimits>>

BoardNext == \E roomId \in RoomIds : JudgeBoard(roomId)

SpecBoards == BoardInit /\ [][BoardNext]_vars

\* ------------------------------------------------------------ the rate limit
\* Cell indices of the requests whose rate is watched.
RateIndexInputs == {Num(0), Num(4)}

\* The two players send requests, one of them faster than the rate limit
\* allows, and leave; time passes a rate window at a time, so that a request can
\* arrive at the very instant its window ends.
RateNext ==
    \/ \E s \in Players, roomId \in RoomIds, index \in RateIndexInputs :
          FloodOK(s) /\ MakeMove(s, roomId, index)
             /\ HistoryCap(MaxLobbyHistory)' /\ ScoreCap'
    \/ \E s \in Players, roomId \in RoomIds, index \in RateIndexInputs :
          FloodOK(s) /\ RemoveSymbol(s, roomId, index)
             /\ HistoryCap(MaxLobbyHistory)'
    \/ \E s \in Players : Disconnect(s)
    \/ TickOK(RATE_LIMIT_WINDOW, MaxRateTicks) /\ Tick(RATE_LIMIT_WINDOW)

SpecRate == PlayInit /\ [][RateNext]_vars

\* ---------------------------------------------------- the simple server
\* src/server.js keeps games and players only; it has no rate limit and no
\* timers, so rateLimits and roomTimers stay as they start.
SimpleCap == 3

\* The game joinGame and resetGame create.
SimpleGame ==
    [board |-> [i \in 0 .. 8 |-> ""],
     currentPlayer |-> "X",
     moves |-> [X |-> <<>>, O |-> <<>>],
     removedStack |-> <<>>]

\* The cell indices and the player field of the payloads: makeMove and
\* removeSymbol take the player from the payload, not from the connection.
SimpleIndexInputs == {Num(n) : n \in (0 .. MaxSimpleIndex) \cup {9}}
SimplePlayerInputs == {"X", "O"}
\* The cell indices of the removeSymbol requests: cell 0 and a cell off the board.
SimpleRemoveInputs == {Num(0), Num(9)}

SimpleInit ==
    /\ games = [r \in {} |-> SimpleGame]
    /\ players = [r \in {} |-> [s \in {} |-> "X"]]
    /\ rateLimits = [s \in {} |-> [count |-> 0, resetTime |-> 0]]
    /\ roomTimers = [r \in RoomIds |-> [move |-> NoTimer, expiry |-> NoTimer]]

\* socket.on("joinGame", (roomId) => ...).  A room that resetGame created has a
\* game but no players entry: line 35 then reads a property of undefined and
\* throws, before anything is written.
SimpleJoinGame(s, roomId) ==
    IF roomId \in DOMAIN games /\ roomId \notin DOMAIN players
    THEN UNCHANGED <<games, players, rateLimits, roomTimers>>
    ELSE LET fresh == roomId \notin DOMAIN games
             roomPlayers == IF fresh THEN [x \in {} |-> "X"] ELSE players[roomId]
             assigned == IF "X" \in {roomPlayers[x] : x \in DOMAIN roomPlayers} THEN "O" ELSE "X"
         IN /\ games' = IF fresh THEN SetKey(games, roomId, SimpleGame) ELSE games
            /\ players' = SetKey(players, roomId,
                                IF s \in DOMAIN roomPlayers THEN roomPlayers
                                ELSE SetKey(roomPlayers, s, assigned))
            /\ UNCHANGED <<rateLimits, roomTimers>>

\* socket.on("makeMove", ({ roomId, index, player }) => ...)
SimpleMakeMove(roomId, index, player) ==
    /\ UNCHANGED <<players, rateLimits, roomTimers>>
    /\ IF roomId \notin DOMAIN games THEN UNCHANGED games
       ELSE LET game == games[roomId] IN
            IF \/ player # game.currentPlayer
               \/ Len(game.moves[player]) >= SimpleCap
               \/ BoardAt(game.board, index) # ""
            THEN UNCHANGED games
            ELSE games' = [games EXCEPT ![roomId] =
                    [game EXCEPT !.board[index.n] = player,
                                 !.moves[player] = Append(@, index),
                                 !.currentPlayer = Other(player)]]

\* socket.on("removeSymbol", ({ roomId, index, player }) => ...)
SimpleRemoveSymbol(roomId, index, player) ==
    /\ UNCHANGED <<players, rateLimits, roomTimers>>
    /\ IF roomId \notin DOMAIN games THEN UNCHANGED games
       ELSE LET game == games[roomId] IN
            IF BoardAt(game.board, index) # player THEN UNCHANGED games
            ELSE games' = [games EXCEPT ![roomId] =
                    [game EXCEPT !.board[index.n] = "",
                                 !.moves[player] = SelectSeq(@, LAMBDA i : i # index),
                                 !.removedStack = Append(@, [player |-> player, index |-> index])]]

\* The game after undo (lines 78-80): the last removal is popped and put back.
Undo(game) ==
    LET n == Len(game.removedStack)
        top == game.removedStack[n]
    IN [game EXCEPT !.removedStack = SubSeq(@, 1, n - 1),
                    !.board[top.index.n] = top.player,
                    !.moves[top.player] = Append(@, top.index)]

\* socket.on("undo", ({ roomId }) => ...)
SimpleUndo(roomId) ==
    /\ UNCHANGED <<players, rateLimits, roomTimers>>
    /\ IF roomId \notin DOMAIN games THEN UNCHANGED games
       ELSE IF Len(games[roomId].removedStack) = 0 THEN UNCHANGED games
       ELSE games' = [games EXCEPT ![roomId] = Undo(@)]

\* socket.on("resetGame", ({ roomId }) => ...)
SimpleResetGame(roomId) ==
    /\ games' = SetKey(games, roomId, SimpleGame)
    /\ UNCHANGED <<players, rateLimits, roomTimers>>

StackCap == \A r \in DOMAIN games : Len(games[r].removedStack) <= MaxStack

\* The run is followed until a move list is one entry over the cap.
MovesCap ==
    \A r \in DOMAIN games, role \in Roles : Len(games[r].moves[role]) <= SimpleCap + 1

SimpleNext ==
    \/ \E s \in Players, roomId \in RoomIds : SimpleJoinGame(s, roomId)
    \/ \E roomId \in RoomIds, index \in SimpleIndexInputs, player \in SimplePlayerInputs :
          SimpleMakeMove(roomId, index, player)
    \/ \E roomId \in RoomIds, index \in SimpleRemoveInputs, player \in SimplePlayerInputs :
          SimpleRemoveSymbol(roomId, index, player) /\ StackCap'
    \/ \E roomId \in RoomIds : SimpleUndo(roomId) /\ MovesCap'
    \/ \E roomId \in RoomIds : SimpleResetGame(roomId)

SpecSimple == SimpleInit /\ [][SimpleNext]_vars

\* ------------------------------------------------------------------- claims
\* How often cell i is named in the move list of role.
Occurrences(game, role, i) ==
    Cardinality({k \in 1 .. Len(game.moves[role]) : game.moves[role][k].n = i})

EmptyCells(game) == Cardinality({i \in 0 .. 8 : game.board[i] = ""})

SymbolsOf(game, role) == Cardinality({i \in 0 .. 8 : game.board[i] = role})

\* C1: in every room, cell i of the board is non-empty exactly when i is named
\* in exactly one of moves.X and moves.O, once, under the role the cell holds;
\* and len(moves.X) + len(moves.O) + the number of empty cells is 9.
C1_BoardMovesConsistent ==
    \A r \in DOMAIN games :
       LET game == games[r] IN
       /\ \A i \in 0 .. 8 :
             /\ game.board[i] # "" <=>
                   Occurrences(game, "X", i) + Occurrences(game, "O", i) = 1
             /\ game.board[i] # "" => Occurrences(game, game.board[i], i) = 1
       /\ Len(game.moves.X) + Len(game.moves.O) + EmptyCells(game) = 9

AllSockets == Sockets \cup {Outsider}

\* currentPlayer of the room before and after a step, when the room is there.
TurnToggled(r) == games'[r].currentPlayer = Other(games[r].currentPlayer)
TurnKept(r) == r \in DOMAIN games => games'[r].currentPlayer = games[r].currentPlayer

\* The step is a makeMove or removeSymbol request of socket s: both handlers
\* begin with checkRateLimit(s).
RequestFrom(s) == rateLimits' = SetKey(rateLimits, s, RateLimitEntry(s))

\* C2 (as claimed): every accepted makeMove and every accepted removeSymbol
\* hands the turn to the other role; every rejected one leaves currentPlayer
\* as it was.
C2_EveryAcceptedMoveToggles ==
    [][\A s \in AllSockets : RequestFrom(s) =>
          \A r \in RoomIds, i \in IndexInputs :
             /\ MakeMove(s, r, i) =>
                   IF MakeMoveOutcome(s, r, i) = "ok" THEN TurnToggled(r) ELSE TurnKept(r)
             /\ RemoveSymbol(s, r, i) =>
                   IF RemoveSymbolOutcome(s, r, i) = "ok" THEN TurnToggled(r) ELSE TurnKept(r)]_vars

\* C2 (amended): an accepted removeSymbol, and an accepted makeMove after which
\* checkWinner finds no result, hand the turn to the other role exactly once; an
\* accepted makeMove that ends the game, and every rejected makeMove or
\* removeSymbol, leave currentPlayer as it was.
C2_TurnAlternation ==
    [][\A s \in AllSockets : RequestFrom(s) =>
          \A r \in RoomIds, i \in IndexInputs :
             /\ MakeMove(s, r, i) =>
                   IF MakeMoveOutcome(s, r, i) = "ok" /\ checkWinner(games'[r].board) = <<>>
                   THEN TurnToggled(r) ELSE TurnKept(r)
             /\ RemoveSymbol(s, r, i) =>
                   IF RemoveSymbolOutcome(s, r, i) = "ok" THEN TurnToggled(r) ELSE TurnKept(r)]_vars

\* A game won by a placement that followed a removal by the other role: the
\* removal handed the turn over, the winning placement kept it.
C2_Witness ==
    \E r \in DOMAIN games :
       LET game == games[r]
           n == Len(game.moveHistory)
       IN /\ n >= 2
          /\ game.moveHistory[n].type = "place"
          /\ game.moveHistory[n - 1].type = "remove"
          /\ game.moveHistory[n - 1].player = Other(game.moveHistory[n].player)
          /\ game.gameStatus = "finished"
          /\ game.winner = game.moveHistory[n].player
          /\ game.currentPlayer = game.winner

\* C3: in every room, gameStatus is "finished" exactly when winner is not null.
C3_FinishedIffWinner ==
    \A r \in DOMAIN games :
       games[r].gameStatus = "finished" <=> games[r].winner # Null

Status(r) == games[r].gameStatus
StatusAfter(r) == games'[r].gameStatus

\* The members of room r that hold role.
Holders(r, role) ==
    IF r \in DOMAIN players THEN {s \in DOMAIN players[r] : players[r][s].role = role} ELSE {}

\* The step is a joinGame of a connection that becomes the second active player
\* of room r.
SecondActiveJoin(r) ==
    \E s \in Sockets, playerName \in PlayerNames :
       /\ JoinGame(s, r, playerName)
       /\ s \notin DOMAIN RoomPlayers(r)
       /\ AssignRole(RoomPlayers(r)) \in Roles
       /\ Holders(r, Other(AssignRole(RoomPlayers(r)))) # {}

\* The step is an accepted makeMove in room r.
AcceptedMakeMove(r) ==
    \E s \in Sockets : RequestFrom(s) /\
       \E i \in IndexInputs \cup LobbyIndexInputs :
          MakeMove(s, r, i) /\ MakeMoveOutcome(s, r, i) = "ok"

\* C4: a room's gameStatus changes only from waiting to playing by the join of
\* the second active player, from playing to finished by a placement that ends
\* the game or by the timeout, from finished to playing by the rematch of an
\* active player, and from playing to waiting by the disconnect of an active
\* player.
C4_StatusTransitions ==
    [][\A r \in RoomIds :
          (r \in DOMAIN games /\ r \in DOMAIN games' /\ StatusAfter(r) # Status(r)) =>
             \/ /\ Status(r) = "waiting" /\ StatusAfter(r) = "playing"
                /\ SecondActiveJoin(r)
             \/ /\ Status(r) = "playing" /\ StatusAfter(r) = "finished"
                /\ AcceptedMakeMove(r) \/ MoveTimeout(r)
             \/ /\ Status(r) = "finished" /\ StatusAfter(r) = "playing"
                /\ \E s \in Sockets : RoleOf(r, s) \in Roles /\ Rematch(s, r)
             \/ /\ Status(r) = "playing" /\ StatusAfter(r) = "waiting"
                /\ \E s \in Sockets : RoleOf(r, s) \in Roles /\ Disconnect(s)]_vars

\* C5: every room has at most one member holding X and at most one holding O,
\* and a connection that is a member of a room before and after a step holds
\* the same role in it.
C5_OneHolderPerRole ==
    /\ [](\A r \in DOMAIN players, role \in Roles : Cardinality(Holders(r, role)) <= 1)
    /\ [][\A r \in DOMAIN players : r \in DOMAIN players' =>
             \A s \in DOMAIN players[r] : s \in DOMAIN players'[r] =>
                players'[r][s].role = players[r][s].role]_vars

\* A room with three members: one holds X, one holds O, one is a spectator.
C5_Witness ==
    \E r \in DOMAIN players :
       /\ Cardinality(DOMAIN players[r]) = 3
       /\ Cardinality(Holders(r, "X")) = 1
       /\ Cardinality(Holders(r, "O")) = 1
       /\ Cardinality(Holders(r, "spectator")) = 1

\* C6: a playing game has its turn timer pending, due MOVE_TIMEOUT after
\* turnStartTime; the timer fires no earlier than that; when it fires on a
\* playing game the game becomes finished with the role that is not
\* currentPlayer as winner, that role's score one higher, and the other scores,
\* the board, the moves and currentPlayer as they were; and a playing game whose
\* turn has begun is sooner or later finished by it, unless a move, a rematch, a
\* pause or the destruction of the room comes first.
C6_TimeoutForfeit ==
    /\ [](\A r \in DOMAIN games : games[r].gameStatus = "playing" =>
             /\ roomTimers[r].move # NoTimer
             /\ roomTimers[r].move = MOVE_TIMEOUT - games[r].turnStartTime)
    /\ [][\A r \in RoomIds : (MoveTimeout(r) /\ TimeoutApplies(r)) =>
             LET winner == Other(games[r].currentPlayer) IN
             /\ games[r].turnStartTime >= MOVE_TIMEOUT
             /\ games'[r].gameStatus = "finished"
             /\ games'[r].winner = winner
             /\ games'[r].scores[winner] = games[r].scores[winner] + 1
             /\ games'[r].scores[games[r].currentPlayer] = games[r].scores[games[r].currentPlayer]
             /\ games'[r].scores.draws = games[r].scores.draws
             /\ games'[r].board = games[r].board
             /\ games'[r].moves = games[r].moves
             /\ games'[r].currentPlayer = games[r].currentPlayer]_vars
    /\ \A r \in RoomIds :
          (/\ r \in DOMAIN games
           /\ games[r].gameStatus = "playing"
           /\ games[r].turnStartTime > 0
           /\ TotalScore(games[r]) < MaxScore)
          ~> (\/ r \notin DOMAIN games
              \/ games[r].gameStatus # "playing"
              \/ games[r].turnStartTime = 0)

\* A game finished by the timeout: a winner without a winning line, scored once,
\* MOVE_TIMEOUT after the turn began, the timer no longer pending.
C6_Witness ==
    \E r \in DOMAIN games :
       /\ games[r].gameStatus = "finished"
       /\ games[r].winner = Other(games[r].currentPlayer)
       /\ games[r].winningLine = <<>>
       /\ games[r].scores[games[r].winner] = 1
       /\ games[r].turnStartTime = MOVE_TIMEOUT
       /\ roomTimers[r].move = NoTimer

\* Socket s holds X or O in room r.
HoldsRole(s, r) == r \in DOMAIN players /\ s \in DOMAIN players[r] /\ players[r][s].role \in Roles

\* Socket s holds a role that has MAX_SYMBOLS symbols on the board of the
\* playing game of room r.
AtCap(s, r) ==
    /\ r \in DOMAIN games
    /\ HoldsRole(s, r)
    /\ games[r].gameStatus = "playing"
    /\ SymbolsOf(games[r], players[r][s].role) = MAX_SYMBOLS

SymbolCapReached == "Maximum 3 symbols placed. Remove one first."

\* C7, as stated: while a role has MAX_SYMBOLS symbols on the board of a
\* playing game, a makeMove of the connection holding the role that passes the
\* rate limit is answered with the symbol cap error, whoever is to move, and
\* leaves the game as it is.
C7_CapErrorWhoeverMoves ==
    [][\A s \in Players : RequestFrom(s) =>
          \A r \in RoomIds, index \in IndexInputs :
             (AtCap(s, r) /\ checkRateLimit(s) /\ MakeMove(s, r, index)) =>
                /\ MakeMoveEmits(s, r, index) = ErrorTo(s, SymbolCapReached)
                /\ UNCHANGED <<games, players, roomTimers>>]_vars

\* C7, amended: such a makeMove is answered with the symbol cap error when it
\* is the role's turn and with "Not your turn" when it is not; either way the
\* game, the members and the timers stay as they are.
C7_CapErrorOnTurn ==
    [][\A s \in Players : RequestFrom(s) =>
          \A r \in RoomIds, index \in IndexInputs :
             (AtCap(s, r) /\ checkRateLimit(s) /\ MakeMove(s, r, index)) =>
                /\ MakeMoveEmits(s, r, index) =
                      ErrorTo(s, IF players[r][s].role = games[r].currentPlayer
                                 THEN SymbolCapReached ELSE "Not your turn")
                /\ UNCHANGED <<games, players, roomTimers>>]_vars

\* X has three symbols on the board and is to move; O's last request is a rate
\* window old and X has sent a request since, which left X at the cap.
C7_Witness ==
    /\ AtCap("s1", RoomA)
    /\ games[RoomA].currentPlayer = "X"
    /\ "s1" \in DOMAIN rateLimits /\ rateLimits["s1"].resetTime = RATE_LIMIT_WINDOW
    /\ "s2" \in DOMAIN rateLimits /\ rateLimits["s2"].resetTime < 0

\* The sender has used up the requests of its running rate window.
RateLimited(s) ==
    /\ s \in DOMAIN rateLimits
    /\ rateLimits[s].resetTime >= 0
    /\ rateLimits[s].count >= MAX_MOVES_PER_WINDOW

\* The reasons to turn down a request of s for room r that makeMove and
\* removeSymbol share: rate limit, unknown room, spectator or not a member, game
\* not playing, not the sender's turn.
CommonRejection(s, r) ==
    \/ RateLimited(s)
    \/ r \notin DOMAIN games
    \/ ~HoldsRole(s, r)
    \/ games[r].gameStatus # "playing"
    \/ players[r][s].role # games[r].currentPlayer

\* The reasons to turn down a makeMove: the shared ones, symbol cap reached,
\* index outside 0..8, cell occupied.
MakeMoveRejection(s, r, index) ==
    \/ CommonRejection(s, r)
    \/ SymbolsOf(games[r], players[r][s].role) >= MAX_SYMBOLS
    \/ index.n \notin 0 .. 8
    \/ games[r].board[index.n] # ""

\* The reasons to turn down a removeSymbol: the shared ones, cell not holding
\* the sender's symbol.
RemoveSymbolRejection(s, r, index) ==
    \/ CommonRejection(s, r)
    \/ BoardAt(games[r].board, index) # players[r][s].role

OnlyToSender(emits, s) == \A m \in emits : m.kind = "socket" /\ m.socket = s

\* C8: a makeMove or removeSymbol turned down for any of the reasons above
\* leaves every game (board, moves, moveHistory, currentPlayer, winner,
\* winningLine, gameStatus, scores), the members and the timers of every room
\* unchanged, and what it emits goes to the sender alone.
C8_RejectionChangesNothing ==
    [][\A s \in AllSockets : RequestFrom(s) =>
          \A r \in {RoomA, RoomB}, index \in RejectIndexInputs :
             /\ (MakeMoveRejection(s, r, index) /\ MakeMove(s, r, index)) =>
                   /\ UNCHANGED <<games, players, roomTimers>>
                   /\ OnlyToSender(MakeMoveEmits(s, r, index), s)
             /\ (RemoveSymbolRejection(s, r, index) /\ RemoveSymbol(s, r, index)) =>
                   /\ UNCHANGED <<games, players, roomTimers>>
                   /\ OnlyToSender(RemoveSymbolEmits(s, r, index), s)]_vars

\* A connection has had a request turned down by the rate limit while the game
\* is being played.
C8_Witness ==
    /\ RoomA \in DOMAIN games /\ games[RoomA].gameStatus = "playing"
    /\ \E s \in DOMAIN rateLimits : rateLimits[s].count > MAX_MOVES_PER_WINDOW

\* C9: a joinGame that gives X or O to a new member of a room whose game is
\* waiting, after which X and O are both held, sets the game to playing and
\* arms the turn timer, however many spectators the room has.
C9_SecondPlayerStartsGame ==
    [][\A s \in Sockets, r \in RoomIds, playerName \in PlayerNames :
          ( /\ JoinGame(s, r, playerName)
            /\ r \in DOMAIN games /\ games[r].gameStatus = "waiting"
            /\ ~(r \in DOMAIN players /\ s \in DOMAIN players[r])
            /\ players'[r][s].role \in Roles
            /\ \A role \in Roles : \E x \in DOMAIN players'[r] : players'[r][x].role = role )
          => /\ games'[r].gameStatus = "playing"
             /\ roomTimers'[r].move = MOVE_TIMEOUT]_vars

\* The game of room r after a rematch that kept the scores of the game before.
BackToStart(r) ==
    /\ games'[r].scores = games[r].scores
    /\ \A i \in 0 .. 8 : games'[r].board[i] = ""
    /\ games'[r].moves = [X |-> <<>>, O |-> <<>>]
    /\ games'[r].moveHistory = <<>>
    /\ games'[r].winner = Null
    /\ games'[r].winningLine = <<>>
    /\ games'[r].currentPlayer = "X"

\* C10: the rematch of a connection holding X or O replaces the game by one
\* with the scores of the game before, an empty board, empty moves and
\* moveHistory, no winner, no winning line and X to move; the rematch of a
\* spectator or of a connection outside the room changes nothing.
C10_RematchKeepsScores ==
    /\ [](\A s \in AllSockets, r \in RoomIds :
             ~HoldsRole(s, r) => ~ENABLED (Rematch(s, r) /\ vars' # vars))
    /\ [][\A s \in AllSockets, r \in RoomIds :
             (HoldsRole(s, r) /\ r \in DOMAIN games /\ Rematch(s, r)) => BackToStart(r)]_vars

\* A game that starts again with a score on the board.
C10_Witness ==
    /\ RoomA \in DOMAIN games
    /\ TotalScore(games[RoomA]) > 0
    /\ games[RoomA].gameStatus = "playing"
    /\ games[RoomA].winner = Null
    /\ games[RoomA].moveHistory = <<>>
    /\ games[RoomA].turnStartTime = 0

\* The game of room r after the step is a brand-new one.
BrandNew(r) ==
    /\ \A i \in 0 .. 8 : games'[r].board[i] = ""
    /\ games'[r].moves = [X |-> <<>>, O |-> <<>>]
    /\ games'[r].scores = [X |-> 0, O |-> 0, draws |-> 0]
    /\ games'[r].gameStatus = "waiting"
    /\ games'[r].currentPlayer = "X"
    /\ games'[r].winner = Null

\* C11: the disconnect of the last member of a room takes the room out of games
\* and players and cancels its turn and expiry timers; a joinGame for a room
\* that is in neither map creates a brand-new game (empty board, scores 0,
\* waiting, X to move) and gives the joiner X.
C11_LastMemberCleanup ==
    [][/\ \A s \in Sockets : Disconnect(s) =>
             \A r \in RoomIds :
                (r \in DOMAIN players /\ DOMAIN players[r] = {s}) =>
                   /\ r \notin DOMAIN games'
                   /\ r \notin DOMAIN players'
                   /\ roomTimers'[r] = [move |-> NoTimer, expiry |-> NoTimer]
       /\ \A s \in Sockets, r \in RoomIds, playerName \in PlayerNames :
             (r \notin DOMAIN games /\ r \notin DOMAIN players /\ JoinGame(s, r, playerName)) =>
                /\ BrandNew(r)
                /\ DOMAIN players'[r] = {s}
                /\ players'[r][s].role = "X"]_vars

\* A brand-new room whose only member is s2, holding X, while s3 has sent
\* requests and s1 is in no room.  (A room that was cleaned up leaves no trace
\* in the state: this is the state after s1 came and went as well as the state
\* before s1 ever came.)
C11_Witness ==
    /\ RoomA \in DOMAIN games /\ RoomA \in DOMAIN players
    /\ games[RoomA] = createGame
    /\ DOMAIN players[RoomA] = {"s2"}
    /\ players[RoomA]["s2"].role = "X"
    /\ roomTimers[RoomA] = [move |-> NoTimer, expiry |-> ROOM_EXPIRY]
    /\ "s3" \in DOMAIN rateLimits

\* The step is an accepted makeMove or removeSymbol for room r.
AcceptedRequest(r) ==
    \E s \in Sockets : RequestFrom(s) /\
       \E i \in LobbyIndexInputs :
          \/ MakeMove(s, r, i) /\ MakeMoveOutcome(s, r, i) = "ok"
          \/ RemoveSymbol(s, r, i) /\ RemoveSymbolOutcome(s, r, i) = "ok"

\* C12: every accepted makeMove or removeSymbol re-arms the expiry timer of the
\* room: after it the room expires ROOM_EXPIRY later, not sooner.
C12_MovesRearmExpiry ==
    [][\A r \in RoomIds : AcceptedRequest(r) => roomTimers'[r].expiry = ROOM_EXPIRY]_vars

RateLimitError == "Too many requests. Slow down!"

\* What the rate limit owes a request of socket s that emits emits: the request
\* opens a window with count 1 when s has no window or its window's reset time
\* is past; else it is one more request of the window, which passes the check
\* while at most MAX_MOVES_PER_WINDOW have come, and otherwise is answered with
\* the rate limit error and changes no game, member or timer.
RateRule(s, emits) ==
    IF s \notin DOMAIN rateLimits \/ rateLimits[s].resetTime < 0
    THEN /\ emits # ErrorTo(s, RateLimitError)
         /\ rateLimits'[s] = [count |-> 1, resetTime |-> RATE_LIMIT_WINDOW]
    ELSE /\ rateLimits'[s] = [count |-> rateLimits[s].count + 1,
                              resetTime |-> rateLimits[s].resetTime]
         /\ IF rateLimits[s].count + 1 <= MAX_MOVES_PER_WINDOW
            THEN emits # ErrorTo(s, RateLimitError)
            ELSE /\ emits = ErrorTo(s, RateLimitError)
                 /\ UNCHANGED <<games, players, roomTimers>>

\* C13: of the makeMove and removeSymbol requests of a connection, the first
\* MAX_MOVES_PER_WINDOW of a window that arrive no later than its reset time
\* pass the rate check, every further one of the window is rejected with the
\* rate limit error and touches no game, the first one after the reset time
\* passes and opens a window with count 1; a disconnect deletes the counter.
C13_RateWindow ==
    [][/\ \A s \in Players : RequestFrom(s) =>
             \A r \in RoomIds, index \in RateIndexInputs :
                /\ MakeMove(s, r, index) => RateRule(s, MakeMoveEmits(s, r, index))
                /\ RemoveSymbol(s, r, index) => RateRule(s, RemoveSymbolEmits(s, r, index))
       /\ \A s \in Players : Disconnect(s) => s \notin DOMAIN rateLimits']_vars

\* A connection has sent one request more than the limit, the last of them no
\* later than the reset time of the window, which is now.
C13_Witness ==
    \E s \in DOMAIN rateLimits :
       /\ rateLimits[s].count = MAX_MOVES_PER_WINDOW + 1
       /\ rateLimits[s].resetTime = 0

\* The triples in the order the claim gives: rows, columns, diagonals.
ClaimedOrder == << <<0, 1, 2>>, <<3, 4, 5>>, <<6, 7, 8>>,
                   <<0, 3, 6>>, <<1, 4, 7>>, <<2, 5, 8>>,
                   <<0, 4, 8>>, <<2, 4, 6>> >>

\* The three cells of the triple hold the same role.
Uniform(board, triple) ==
    /\ board[triple[1]] \in Roles
    /\ board[triple[1]] = board[triple[2]]
    /\ board[triple[1]] = board[triple[3]]

\* What the claim says checkWinner returns for the board.
ClaimedResult(board) ==
    LET hits == {k \in 1 .. Len(ClaimedOrder) : Uniform(board, ClaimedOrder[k])}
    IN IF hits # {}
       THEN LET first == CHOOSE k \in hits : \A j \in hits : k <= j
            IN <<[winner |-> board[ClaimedOrder[first][1]], line |-> ClaimedOrder[first]]>>
       ELSE IF \A i \in 0 .. 8 : board[i] # ""
            THEN <<[winner |-> "draw", line |-> <<>>]>>
            ELSE <<>>

\* C14: for every board, checkWinner returns the role and the triple of the
\* first triple, rows then columns then diagonals, whose cells all hold the same
\* role; with no such triple it returns a draw without a line when no cell is
\* empty and null otherwise; and that result is what is stored.
C14_FirstLineWins ==
    \A r \in DOMAIN games :
       /\ checkWinner(games[r].board) = ClaimedResult(games[r].board)
       /\ games[r].gameStatus = "finished" =>
             ClaimedResult(games[r].board) =
                <<[winner |-> games[r].winner, line |-> games[r].winningLine]>>

\* A judged board with the first row and the first column both complete: the
\* row is the winning line.
C14_Witness ==
    \E r \in DOMAIN games :
       /\ games[r].gameStatus = "finished"
       /\ Uniform(games[r].board, <<0, 1, 2>>)
       /\ Uniform(games[r].board, <<0, 3, 6>>)
       /\ games[r].winningLine = <<0, 1, 2>>
       /\ games[r].winner = games[r].board[0]

\* C15: a joinGame of a connection that is a member of the room reports the
\* role and the playerId of its first join, whatever name it sends, and changes
\* no game (status, board), no member's role and no timer.
C15_JoinAgainChangesNothing ==
    \A s \in Sockets, r \in RoomIds, playerName \in JoinNames :
       (r \in DOMAIN players /\ s \in DOMAIN players[r]) =>
          /\ JoinGameEmits(s, r) =
                {ToSocket(s, "init", players[r][s].role),
                 ToOthers(s, r, "playerJoined", players[r][s].role)}
          /\ JoinPlayerId(s, r, playerName) = {players[r][s].playerId}
          /\ ~ENABLED (JoinGame(s, r, playerName)
                          /\ <<games, players, roomTimers>>' # <<games, players, roomTimers>>)

\* A game under way with a move made, whose player O joined under a name and
\* whose player X did not.
C15_Witness ==
    \E r \in DOMAIN players, s \in Sockets, x \in Sockets :
       /\ s \in DOMAIN players[r] /\ x \in DOMAIN players[r]
       /\ players[r][s].role = "O" /\ players[r][s].playerId = "ann"
       /\ players[r][x].role = "X" /\ players[r][x].playerId \in GeneratedIds
       /\ games[r].gameStatus = "playing"
       /\ games[r].moveHistory # <<>>

\* C16: in the simple server every role has at most three indices in its move
\* list and at most three cells on the board, whatever was undone.
C16_SimpleCapHolds ==
    \A r \in DOMAIN games, role \in Roles :
       /\ Len(games[r].moves[role]) <= SimpleCap
       /\ SymbolsOf(games[r], role) <= SimpleCap

\* C17: a room whose game is playing has a member holding X and a member
\* holding O.
C17_PlayingHasBothPlayers ==
    \A r \in DOMAIN games :
       games[r].gameStatus = "playing" => Holders(r, "X") # {} /\ Holders(r, "O") # {}

C19_ScoredOnce ==
    [][\A r \in RoomIds : (r \in DOMAIN games /\ r \in DOMAIN games') =>
          /\ TotalScore(games'[r]) # TotalScore(games[r]) =>
                /\ TotalScore(games'[r]) = TotalScore(games[r]) + 1
                /\ games[r].winner = Null
                /\ games'[r].winner # Null
          /\ (games[r].winner # Null /\ games'[r].winner = Null) =>
                \E s \in Sockets : Rematch(s, r)]_vars

====
